---- MODULE Spec2Model ----
(***************************************************************************)
(* Model of the Streamlit transcription app: the time-code utilities       *)
(* (app/utils/time_utils.py, main.py), the segment pipeline process_audio, *)
(* its caller transcribe_audio_source, the script body main() with its     *)
(* session state, and the query responder answer_with_llm.                 *)
(*                                                                         *)
(* Strings that the code inspects character by character (time codes) are  *)
(* sequences of one-character strings; strings that the code only builds   *)
(* and compares (speaker labels, texts, messages) are TLA+ strings.        *)
(***************************************************************************)
EXTENDS Integers, Sequences, FiniteSets, TLC

(***************************************************************************)
(* Bounds                                                                  *)
(***************************************************************************)
\* longest time-code string fed to hms_to_seconds in SpecHms
MaxLen == 7
\* largest number of spans a diarization call returns
MaxSpans == 3

(***************************************************************************)
(* Characters and strings                                                  *)
(***************************************************************************)
Digits == {"0", "1", "2", "3", "4", "5", "6", "7", "8", "9"}

LowDigits == {"0", "1", "2", "3", "4", "5"}

\* characters of the strings enumerated in SpecHms: a digit in [0-5], a
\* digit in [6-9], both separators and one non-numeric character
Alphabet == {"0", "6", ":", ".", "x"}

DigitVal(c) ==
    CASE c = "0" -> 0 [] c = "1" -> 1 [] c = "2" -> 2 [] c = "3" -> 3
      [] c = "4" -> 4 [] c = "5" -> 5 [] c = "6" -> 6 [] c = "7" -> 7
      [] c = "8" -> 8 [] c = "9" -> 9

AllDigits(s) == \A k \in 1..Len(s) : s[k] \in Digits

\* str.split(sep): the list of the pieces between the separators
RECURSIVE Split(_, _)
Split(s, sep) ==
    IF \A k \in 1..Len(s) : s[k] # sep
    THEN <<s>>
    ELSE LET p == CHOOSE k \in 1..Len(s) :
                      s[k] = sep /\ \A j \in 1..(k - 1) : s[j] # sep
         IN  <<SubSeq(s, 1, p - 1)>> \o Split(SubSeq(s, p + 1, Len(s)), sep)

\* int(text) succeeds on a non-empty string of decimal digits
IntOk(s) == Len(s) > 0 /\ AllDigits(s)

RECURSIVE IntVal(_)
IntVal(s) ==
    IF Len(s) = 0 THEN 0
    ELSE 10 * IntVal(SubSeq(s, 1, Len(s) - 1)) + DigitVal(s[Len(s)])

\* float("0." + digits) succeeds on any (possibly empty) string of digits
FloatFracOk(s) == AllDigits(s)

\* the value of float("0." + digits), as its digits without trailing zeros
RECURSIVE FracVal(_)
FracVal(s) ==
    IF Len(s) = 0 THEN <<>>
    ELSE IF s[Len(s)] = "0" THEN FracVal(SubSeq(s, 1, Len(s) - 1))
    ELSE s

\* a raised ValueError
ValueError == [ok |-> FALSE, secs |-> 0, frac |-> <<>>]

Seconds(n, f) == [ok |-> TRUE, secs |-> n, frac |-> f]

\* the function has not been applied yet
Pending == [ok |-> FALSE, secs |-> -1, frac |-> <<>>]

(***************************************************************************)
(* Time-code utility                                                       *)
(***************************************************************************)
\* hms_to_seconds: the number of seconds, or ValueError.  The seconds are
\* kept exact: whole seconds and the digits of the fraction.
hms_to_seconds(hms) ==
    LET dot == Split(hms, ".")
    IN  \* time_part, ms_part = hms.split('.') unpacks exactly two pieces
        IF Len(dot) > 2 THEN ValueError
        ELSE
        LET time_part == dot[1]
            ms_part == IF Len(dot) = 2 THEN dot[2] ELSE <<>>
            parts == Split(time_part, ":")
        IN  IF ~FloatFracOk(ms_part) THEN ValueError
            ELSE IF Len(parts) = 3
            THEN IF IntOk(parts[1]) /\ IntOk(parts[2]) /\ IntOk(parts[3])
                 THEN Seconds(IntVal(parts[1]) * 3600 + IntVal(parts[2]) * 60
                              + IntVal(parts[3]), FracVal(ms_part))
                 ELSE ValueError
            ELSE IF Len(parts) = 2
            THEN IF IntOk(parts[1]) /\ IntOk(parts[2])
                 THEN Seconds(IntVal(parts[1]) * 60 + IntVal(parts[2]),
                              FracVal(ms_part))
                 ELSE ValueError
            ELSE \* one component, or four and more: only parts[0] is read
                 IF IntOk(parts[1])
                 THEN Seconds(IntVal(parts[1]), FracVal(ms_part))
                 ELSE ValueError

\* a < b for two fractions given by their digits
RECURSIVE FracLess(_, _)
FracLess(a, b) ==
    IF Len(b) = 0 THEN FALSE
    ELSE IF Len(a) = 0 THEN TRUE
    ELSE IF a[1] # b[1] THEN DigitVal(a[1]) < DigitVal(b[1])
    ELSE FracLess(Tail(a), Tail(b))

\* a < b for two results of hms_to_seconds
SecondsLess(a, b) ==
    \/ a.secs < b.secs
    \/ a.secs = b.secs /\ FracLess(a.frac, b.frac)

\* ([0-9]{1,2}:)?
MatchHours(s) ==
    \/ Len(s) = 0
    \/ /\ Len(s) \in {2, 3}
       /\ s[Len(s)] = ":"
       /\ AllDigits(SubSeq(s, 1, Len(s) - 1))

\* [0-5]?[0-9]:
MatchMinutes(s) ==
    \/ Len(s) = 2 /\ s[1] \in Digits /\ s[2] = ":"
    \/ Len(s) = 3 /\ s[1] \in LowDigits /\ s[2] \in Digits /\ s[3] = ":"

\* [0-5][0-9]
MatchSeconds(s) == Len(s) = 2 /\ s[1] \in LowDigits /\ s[2] \in Digits

\* (\.[0-9]{1,3})?
MatchMillis(s) ==
    \/ Len(s) = 0
    \/ /\ Len(s) \in 2..4
       /\ s[1] = "."
       /\ AllDigits(SubSeq(s, 2, Len(s)))

\* validate_time_format: the whole string matches
\* ^([0-9]{1,2}:)?[0-5]?[0-9]:[0-5][0-9](\.[0-9]{1,3})?$
validate_time_format(time_str) ==
    \E i \in 0..Len(time_str) : \E j \in i..Len(time_str) :
      \E k \in j..Len(time_str) :
        /\ MatchHours(SubSeq(time_str, 1, i))
        /\ MatchMinutes(SubSeq(time_str, i + 1, j))
        /\ MatchSeconds(SubSeq(time_str, j + 1, k))
        /\ MatchMillis(SubSeq(time_str, k + 1, Len(time_str)))

(***************************************************************************)
(* Collaborators' values                                                   *)
(***************************************************************************)
\* speaker labels a diarization call hands out
Speakers == {"SPEAKER_00", "SPEAKER_01"}

\* texts the speech-to-text engine returns (already stripped)
Texts == {"hi"}

\* run_diarization's results: up to MaxSpans spans in non-decreasing start
\* order, span k covering second k-1 to k of the bounded clip; the labels
\* are numbered from the first span's speaker
SpanSeqs ==
    UNION {{[k \in 1..n |-> [speaker |-> f[k], start |-> k - 1, end |-> k]] :
               f \in {g \in [1..n -> Speakers] : n > 0 => g[1] = "SPEAKER_00"}}
           : n \in 0..MaxSpans}

\* diarization_segments before run_diarization has returned
NotDiarized == <<[speaker |-> "None", start |-> 0, end |-> 0]>>

\* the time fields and the "Set End Time" checkbox when a button is
\* pressed: <<start, end, end enabled>>.  A well-formed window, an end
\* before the start, an empty end field, a bare-seconds end, a start with
\* seconds out of range, and an unchecked box with text left in the field.
TimeInputs ==
    {<<<<"0", ":", "1", "0">>, <<"0", ":", "3", "0">>, TRUE>>,
     <<<<"0", ":", "1", "0">>, <<"0", ":", "0", "5">>, TRUE>>,
     <<<<"0", ":", "1", "0">>, <<>>, TRUE>>,
     <<<<"0", ":", "1", "0">>, <<"5">>, TRUE>>,
     <<<<"0", ":", "6", "0">>, <<"0", ":", "3", "0">>, TRUE>>,
     <<<<"0", ":", "1", "0">>, <<"5">>, FALSE>>}

\* the YouTube URL field (non-empty, or the button is not shown)
Urls == {"https://www.youtube.com/watch?v=a", "www.youtube.com/watch?v=a"}

\* youtube_url.startswith("https://")
StartsWithHttps(url) == url = "https://www.youtube.com/watch?v=a"

NoneTime == <<"None">>

\* paths of the temporary files
NoFile == <<"None", 0>>

UploadFile == <<"upload", 0>>

YoutubeFile == <<"youtube_audio.wav", 0>>

TrimmedFile == <<"trimmed_audio.wav", 0>>

SegmentFile(n) == <<"segment_.wav", n>>

\* the ways the underlying chat-completion call can end
LLMCalls == {"ok", "timeout", "network", "malformed"}

\* message.content of a successful completion
LLMContents == {" The answer. ", "  "}

\* str.strip() on those contents
Strip(content) ==
    CASE content = " The answer. " -> "The answer."
      [] content = "  " -> ""

Questions == {"Summarize the discussion", "custom question"}

Sentinel == "LLM request failed."

MsgStart == "Invalid start time format. Use HH:MM:SS or MM:SS."

MsgEnd == "Invalid end time format. Use HH:MM:SS or MM:SS."

MsgUrl == "Please enter a valid YouTube URL."

MsgDownload == "Failed to download audio from YouTube."

MsgNone == "No transcriptions generated."

MsgLLM == "Error calling LLM"

(***************************************************************************)
(* State                                                                   *)
(***************************************************************************)
VARIABLES
    hms,                \* argument of hms_to_seconds (SpecHms)
    hms_result,         \* its result (SpecHms)
    session_state,      \* st.session_state: transcriptions, transcript_text,
                        \* llm_response
    llm_context,        \* the context from which the stored llm_response
                        \* was computed, "" when it is not a query's result
    llm_call,           \* how the model call of this script run ended
    start_time,         \* main: the start field at the last button press
    end_time,           \* main: the end field at the last button press
    end_time_enabled,   \* main: the "Set End Time" checkbox
    pc,                 \* position of the script run
    is_youtube,         \* transcribe_audio_source parameter
    fs,                 \* temporary files of the current run that exist
    tmpdirs,            \* temporary directories the current run has made
    trimmed_file,       \* process_audio: result of the window trim
    diarization_segments, \* process_audio: result of run_diarization
    i,                  \* process_audio: loop index (0-based)
    segment_files,      \* per span so far: did its sub-clip trim succeed
    transcriptions,     \* process_audio: the list being built
    st_error,           \* st.error messages of this script run
    raised,             \* exception that ended this script run, "" if none
    displayed           \* argument of display_transcription in this script
                        \* run, <<>> when it was not called

hmsVars == <<hms, hms_result>>

uiVars == <<start_time, end_time, end_time_enabled>>

runVars == <<is_youtube, fs, tmpdirs, trimmed_file, diarization_segments, i,
             segment_files, transcriptions>>

vars == <<hms, hms_result, session_state, llm_context, llm_call, start_time,
          end_time, end_time_enabled, pc, is_youtube, fs, tmpdirs,
          trimmed_file, diarization_segments, i, segment_files,
          transcriptions, st_error, raised, displayed>>

(***************************************************************************)
(* Transcript assembler and query responder                                *)
(***************************************************************************)
\* "\n".join(lines)
RECURSIVE Join(_)
Join(lines) ==
    IF Len(lines) = 0 THEN ""
    ELSE IF Len(lines) = 1 THEN lines[1]
    ELSE lines[1] \o "\n" \o Join(Tail(lines))

combine_transcriptions(segs) ==
    Join([k \in 1..Len(segs) |-> segs[k].speaker \o ": " \o segs[k].text])

\* answer_with_llm without the try/except around the client call
answer_with_llm_raises(context, question, call, content) ==
    IF call = "ok"
    THEN [value |-> Strip(content), raised |-> ""]
    ELSE [value |-> "", raised |-> "LLMError"]

\* answer_with_llm: value is what it returns, raised the exception that
\* leaves it ("" if none).  call is how the client call ends, content the
\* message of a successful completion.
answer_with_llm(context, question, call, content) ==
    IF call = "ok"
    THEN [value |-> Strip(content), raised |-> ""]
    ELSE [value |-> Sentinel, raised |-> ""]

(***************************************************************************)
(* Script runs                                                             *)
(***************************************************************************)
\* the end time handed to transcribe_audio_source and on to process_audio
EndPassed == IF end_time_enabled THEN end_time ELSE NoneTime

Init ==
    /\ hms = <<>>
    /\ hms_result = Pending
    /\ session_state = [transcriptions |-> <<>>, transcript_text |-> "",
                        llm_response |-> ""]
    /\ llm_context = ""
    /\ llm_call = "none"
    /\ start_time = <<"0", ":", "1", "0">>
    /\ end_time = <<"0", ":", "3", "0">>
    /\ end_time_enabled = TRUE
    /\ pc = "idle"
    /\ is_youtube = FALSE
    /\ fs = {}
    /\ tmpdirs = 0
    /\ trimmed_file = NoFile
    /\ diarization_segments = NotDiarized
    /\ i = 0
    /\ segment_files = <<>>
    /\ transcriptions = <<>>
    /\ st_error = {}
    /\ raised = ""
    /\ displayed = <<>>

\* main, lines 335-383: what the script shows after the button handlers
ShowTranscriptions ==
    displayed' = session_state'.transcriptions

\* process_audio is left, by return or by exception: its locals are gone
LeaveProcessAudio ==
    /\ trimmed_file' = NoFile
    /\ diarization_segments' = NotDiarized
    /\ i' = 0
    /\ segment_files' = <<>>
    /\ transcriptions' = <<>>

\* an uncaught exception ends the script run where it is raised
Abort(exc) ==
    /\ raised' = exc
    /\ displayed' = <<>>
    /\ pc' = "idle"
    /\ LeaveProcessAudio
    /\ UNCHANGED <<session_state, st_error>>

\* StoreResult without line 195: the old answer survives the new transcript
StoreResult_keep(result) ==
    /\ LeaveProcessAudio
    /\ IF result = <<>>
       THEN /\ st_error' = st_error \cup {MsgNone}
            /\ UNCHANGED <<session_state, llm_context>>
       ELSE /\ session_state' =
                   [transcriptions |-> result,
                    transcript_text |-> combine_transcriptions(result),
                    llm_response |-> session_state.llm_response]
            /\ UNCHANGED <<st_error, llm_context>>
    /\ ShowTranscriptions
    /\ pc' = "idle"
    /\ UNCHANGED raised

\* transcribe_audio_source, lines 187-195, with the value process_audio
\* returned, then the rest of main
StoreResult(result) ==
    /\ LeaveProcessAudio
    /\ IF result = <<>>
       THEN /\ st_error' = st_error \cup {MsgNone}
            /\ UNCHANGED <<session_state, llm_context>>
       ELSE /\ session_state' =
                   [transcriptions |-> result,
                    transcript_text |-> combine_transcriptions(result),
                    llm_response |-> ""]
            /\ llm_context' = ""
            /\ UNCHANGED st_error
    /\ ShowTranscriptions
    /\ pc' = "idle"
    /\ UNCHANGED raised

\* InputError without the check of the end field
InputError_startonly(in) ==
    IF ~validate_time_format(in[1]) THEN MsgStart ELSE ""

\* main, lines 277-282 and 316-321: the message of the time-field check
\* that fails first, "" when both pass
InputError(in) ==
    IF ~validate_time_format(in[1]) THEN MsgStart
    ELSE IF in[3] /\ in[2] # <<>> /\ ~validate_time_format(in[2]) THEN MsgEnd
    ELSE ""

\* main returns from a handler after st.error(msg)
Reject(msg) ==
    /\ st_error' = {msg}
    /\ pc' = "idle"
    /\ fs' = {}
    /\ tmpdirs' = 0
    /\ UNCHANGED is_youtube

\* the "Process Audio" button, lines 276-293, up to the call of
\* process_audio in transcribe_audio_source
ClickProcessAudio ==
    /\ pc = "idle"
    /\ \E in \in TimeInputs :
        /\ start_time' = in[1]
        /\ end_time' = in[2]
        /\ end_time_enabled' = in[3]
        /\ IF InputError(in) # ""
           THEN Reject(InputError(in))
           ELSE /\ fs' = {UploadFile}
                /\ tmpdirs' = 1
                /\ is_youtube' = FALSE
                /\ pc' = "process_audio"
                /\ st_error' = {}
    /\ llm_call' = "none"
    /\ raised' = ""
    /\ displayed' = <<>>
    /\ UNCHANGED <<hmsVars, session_state, llm_context, trimmed_file,
                   diarization_segments, i, segment_files, transcriptions>>

\* the "Process Video" button, lines 315-333, up to the download
ClickProcessVideo ==
    /\ pc = "idle"
    /\ \E in \in TimeInputs, youtube_url \in Urls :
        /\ start_time' = in[1]
        /\ end_time' = in[2]
        /\ end_time_enabled' = in[3]
        /\ IF InputError(in) # ""
           THEN Reject(InputError(in))
           ELSE IF ~StartsWithHttps(youtube_url)
           THEN Reject(MsgUrl)
           ELSE /\ fs' = {}
                /\ tmpdirs' = 1
                /\ is_youtube' = TRUE
                /\ pc' = "download"
                /\ st_error' = {}
    /\ llm_call' = "none"
    /\ raised' = ""
    /\ displayed' = <<>>
    /\ UNCHANGED <<hmsVars, session_state, llm_context, trimmed_file,
                   diarization_segments, i, segment_files, transcriptions>>

\* transcribe_audio_source, lines 175-180
Download ==
    /\ pc = "download"
    /\ \E audio_file \in {YoutubeFile, NoFile} :
        IF audio_file = NoFile
        THEN /\ st_error' = st_error \cup {MsgDownload}
             /\ UNCHANGED <<fs, session_state>>
             /\ ShowTranscriptions
             /\ pc' = "idle"
        ELSE /\ fs' = fs \cup {audio_file}
             /\ pc' = "process_audio"
             /\ UNCHANGED <<st_error, displayed, session_state>>
    /\ UNCHANGED <<hmsVars, uiVars, llm_context, llm_call, raised, is_youtube,
                   tmpdirs, trimmed_file, diarization_segments, i,
                   segment_files, transcriptions>>

\* process_audio, lines 122-128
TrimWindow ==
    /\ pc = "process_audio"
    /\ tmpdirs' = tmpdirs + 1
    /\ \E file \in {TrimmedFile, NoFile} :
        IF file = NoFile
        THEN /\ StoreResult(<<>>)
             /\ UNCHANGED fs
        ELSE /\ trimmed_file' = file
             /\ fs' = fs \cup {file}
             /\ pc' = "diarize"
             /\ UNCHANGED <<session_state, llm_context, st_error, raised,
                            displayed, diarization_segments, i,
                            segment_files, transcriptions>>
    /\ UNCHANGED <<hmsVars, uiVars, llm_call, is_youtube>>

\* process_audio, lines 131-135
Diarize ==
    /\ pc = "diarize"
    /\ \/ \E segments \in SpanSeqs :
            /\ diarization_segments' = segments
            /\ pc' = "loop"
            /\ UNCHANGED <<session_state, st_error, raised, displayed,
                           trimmed_file, i, segment_files, transcriptions>>
       \/ Abort("DiarizationFailed")
    /\ UNCHANGED <<hmsVars, uiVars, llm_context, llm_call, is_youtube, fs,
                   tmpdirs>>

\* NewSegment with the span's start in both time fields
NewSegment_noend(segment, text) ==
    [speaker |-> segment.speaker, text |-> text, start |-> segment.start,
     end |-> segment.start]

\* process_audio, lines 144-149: the dict appended for a transcribed span
NewSegment(segment, text) ==
    [speaker |-> segment.speaker, text |-> text, start |-> segment.start,
     end |-> segment.end]

\* process_audio, lines 136-150: one iteration of the loop
TranscribeSegment ==
    /\ pc = "loop"
    /\ i < Len(diarization_segments)
    /\ LET segment == diarization_segments[i + 1]
       IN  \E segment_file \in {SegmentFile(i), NoFile} :
             IF segment_file = NoFile
             THEN /\ segment_files' = Append(segment_files, FALSE)
                  /\ i' = i + 1
                  /\ UNCHANGED <<fs, transcriptions, pc, session_state,
                                 st_error, raised, displayed, trimmed_file,
                                 diarization_segments>>
             ELSE \/ \E text \in Texts :
                       /\ segment_files' = Append(segment_files, TRUE)
                       /\ transcriptions' =
                            Append(transcriptions, NewSegment(segment, text))
                       /\ fs' = (fs \cup {segment_file}) \ {segment_file}
                       /\ i' = i + 1
                       /\ UNCHANGED <<pc, session_state, st_error, raised,
                                      displayed, trimmed_file,
                                      diarization_segments>>
                  \/ /\ Abort("TranscriptionFailed")
                     /\ fs' = fs \cup {segment_file}
    /\ UNCHANGED <<hmsVars, uiVars, llm_context, llm_call, is_youtube,
                   tmpdirs>>

\* process_audio, lines 151-153, and the caller's use of the result
ReturnTranscriptions ==
    /\ pc = "loop"
    /\ i = Len(diarization_segments)
    /\ fs' = fs \ {trimmed_file}
    /\ StoreResult(transcriptions)
    /\ UNCHANGED <<hmsVars, uiVars, llm_call, is_youtube, tmpdirs>>

\* the "Run LLM Query" button, lines 364-378, shown only with a transcript
ClickRunLLM ==
    /\ pc = "idle"
    /\ session_state.transcriptions # <<>>
    /\ \E question \in Questions, call \in LLMCalls, content \in LLMContents :
        LET r == answer_with_llm(session_state.transcript_text, question,
                                 call, content)
        IN  /\ llm_call' = call
            /\ llm_context' = session_state.transcript_text
            /\ st_error' = IF call = "ok" THEN {} ELSE {MsgLLM}
            /\ IF r.raised # ""
               THEN /\ raised' = r.raised
                    /\ displayed' = <<>>
                    /\ UNCHANGED session_state
               ELSE /\ raised' = ""
                    /\ session_state' =
                         [session_state EXCEPT !.llm_response = r.value]
                    /\ ShowTranscriptions
    /\ UNCHANGED <<hmsVars, uiVars, pc, runVars>>

Next ==
    \/ ClickProcessAudio
    \/ ClickProcessVideo
    \/ Download
    \/ TrimWindow
    \/ Diarize
    \/ TranscribeSegment
    \/ ReturnTranscriptions
    \/ ClickRunLLM

Spec == Init /\ [][Next]_vars

(***************************************************************************)
(* hms_to_seconds on its own: every string up to MaxLen characters         *)
(***************************************************************************)
InitHms ==
    /\ hms \in UNION {[1..n -> Alphabet] : n \in 0..MaxLen}
    /\ hms_result = Pending
    /\ session_state = [transcriptions |-> <<>>, transcript_text |-> "",
                        llm_response |-> ""]
    /\ llm_context = ""
    /\ llm_call = "none"
    /\ start_time = <<"0", ":", "1", "0">>
    /\ end_time = <<"0", ":", "3", "0">>
    /\ end_time_enabled = TRUE
    /\ pc = "idle"
    /\ is_youtube = FALSE
    /\ fs = {}
    /\ tmpdirs = 0
    /\ trimmed_file = NoFile
    /\ diarization_segments = NotDiarized
    /\ i = 0
    /\ segment_files = <<>>
    /\ transcriptions = <<>>
    /\ st_error = {}
    /\ raised = ""
    /\ displayed = <<>>

ApplyHms ==
    /\ hms_result = Pending
    /\ hms_result' = hms_to_seconds(hms)
    /\ UNCHANGED <<hms, session_state, llm_context, llm_call, start_time,
                   end_time, end_time_enabled, pc, is_youtube, fs, tmpdirs,
                   trimmed_file, diarization_segments, i, segment_files,
                   transcriptions, st_error, raised, displayed>>

NextHms == ApplyHms

SpecHms == InitHms /\ [][NextHms]_vars
(***************************************************************************)
(* Properties                                                              *)
(***************************************************************************)
\* speaker, start and end of the spans whose entry in ok is TRUE, in order
RECURSIVE TrimmedSpans(_, _)
TrimmedSpans(spans, ok) ==
    IF Len(spans) = 0 \/ Len(ok) = 0 THEN <<>>
    ELSE (IF ok[1]
          THEN <<[speaker |-> spans[1].speaker, start |-> spans[1].start,
                  end |-> spans[1].end]>>
          ELSE <<>>) \o TrimmedSpans(Tail(spans), Tail(ok))

\* speaker, start and end of each segment of a transcript
Shape(segs) ==
    [k \in 1..Len(segs) |-> [speaker |-> segs[k].speaker,
                             start |-> segs[k].start, end |-> segs[k].end]]

\* C1: when no transcription call fails, the loop of process_audio is left
\* only by its return, after every span has been tried, and the returned
\* list holds exactly one segment per span whose sub-clip trim succeeded,
\* in span order, with that span's speaker, start and end; a non-empty
\* result is what the session stores.
C1_OneSegmentPerTrimmedSpan ==
    [][(pc = "loop" /\ pc' = "idle" /\ raised' # "TranscriptionFailed")
       => /\ raised' = ""
          /\ Len(segment_files) = Len(diarization_segments)
          /\ Shape(transcriptions)
               = TrimmedSpans(diarization_segments, segment_files)
          /\ (transcriptions # <<>>
                => session_state'.transcriptions = transcriptions)]_vars

\* three spans, the second one's trim failed: spans 1 and 3 were returned
C1_Witness ==
    /\ pc = "idle"
    /\ raised = ""
    /\ Len(session_state.transcriptions) = 2
    /\ session_state.transcriptions[1].start = 0
    /\ session_state.transcriptions[2].start = 2
    /\ displayed = session_state.transcriptions

\* C2: once a run has completed, none of its temporary clips (downloaded
\* source, window-bounded clip, per-span sub-clips) exists any more.
C2_ClipsRemoved ==
    pc = "idle" => fs \ {UploadFile} = {}

\* C3: a transcription failure does not end the run: every iteration of
\* the loop is followed by the next one.
C3_SkipAndContinue ==
    [][(pc = "loop" /\ i < Len(diarization_segments))
       => (pc' = "loop" /\ i' = i + 1)]_vars

\* C4: a run whose window trim succeeded and whose diarization returned
\* zero spans ends without an error being reported.
C4_ZeroSpansNotAnError ==
    [][(pc = "loop" /\ diarization_segments = <<>> /\ pc' = "idle")
       => (st_error' = {} /\ raised' = "")]_vars

\* the step on which a run fails fatally: the download fails, the window
\* trim fails, or the diarization fails
FatalStep ==
    /\ pc \in {"download", "process_audio", "diarize"}
    /\ pc' = "idle"

\* C5: the script run in which a processing run fails fatally shows no
\* transcript.
C5_NoStaleTranscript ==
    [][FatalStep => displayed' = <<>>]_vars

\* no temporary file or directory, no download, no process_audio
NothingTouched == pc = "idle" /\ fs = {} /\ tmpdirs = 0

\* C6 as stated: a start time, or an end time handed on to the pipeline,
\* that fails validate_time_format blocks the run before anything is
\* touched.
C6_MalformedTimeBlocks ==
    (\/ ~validate_time_format(start_time)
     \/ EndPassed # NoneTime /\ ~validate_time_format(EndPassed))
    => NothingTouched

\* C6, amended: a start time, or a non-empty end time with the end-time
\* box checked, that fails validate_time_format blocks the run before
\* anything is touched.
C6_MalformedNonEmptyTimeBlocks ==
    (\/ ~validate_time_format(start_time)
     \/ end_time_enabled /\ end_time # <<>>
          /\ ~validate_time_format(end_time))
    => NothingTouched

\* a bare-seconds end time was rejected
C6_Witness ==
    /\ end_time = <<"5">>
    /\ end_time_enabled
    /\ st_error = {MsgEnd}
    /\ NothingTouched

\* C7: hms_to_seconds fails whenever the number of colon-separated
\* components is not 1, 2 or 3, and whenever a component holds a character
\* that is neither a digit nor the decimal point.
C7_RejectsBadComponentCount ==
    (/\ hms_result # Pending
     /\ \/ Len(Split(hms, ":")) \notin 1..3
        \/ \E k \in 1..Len(hms) : hms[k] \notin Digits \cup {":", "."})
    => ~hms_result.ok

\* C8: a script run that queries the model leaves transcriptions and
\* transcript_text as they were and ends without an exception, and when the
\* model call failed the stored answer is exactly the sentinel.
C8_QueryFailureIsSentinel ==
    [][llm_call' # "none"
       => /\ session_state'.transcriptions = session_state.transcriptions
          /\ session_state'.transcript_text = session_state.transcript_text
          /\ raised' = ""
          /\ (llm_call' # "ok" => session_state'.llm_response = Sentinel)]_vars

\* a timed-out query left the sentinel next to the transcript
C8_Witness ==
    /\ llm_call = "timeout"
    /\ session_state.llm_response = Sentinel
    /\ session_state.transcriptions # <<>>
    /\ displayed = session_state.transcriptions

\* C9: when process_audio is about to trim, an end time that is present is
\* strictly greater than the start time.
C9_WindowEndAfterStart ==
    (pc = "process_audio" /\ EndPassed \notin {NoneTime, <<>>})
    => SecondsLess(hms_to_seconds(start_time), hms_to_seconds(EndPassed))

\* transcript_text is the flattened transcriptions, and a stored answer was
\* computed from the transcript_text that is stored now
SessionConsistent ==
    /\ session_state.transcript_text
         = combine_transcriptions(session_state.transcriptions)
    /\ (session_state.llm_response # ""
          => llm_context = session_state.transcript_text)

\* C10: in every state transcript_text is
\* combine_transcriptions(transcriptions) and a non-empty llm_response was
\* computed from the transcript_text that is stored now; and a run that
\* returns a non-empty list stores that list, its flattened text and an
\* empty llm_response together.
C10_SessionConsistent ==
    /\ []SessionConsistent
    /\ [][(pc = "loop" /\ pc' = "idle" /\ raised' = ""
             /\ transcriptions # <<>>)
          => session_state' =
               [transcriptions |-> transcriptions,
                transcript_text |-> combine_transcriptions(transcriptions),
                llm_response |-> ""]]_vars

\* an answer is still stored, for a two-segment transcript, after a later
\* run failed at the download
C10_Witness ==
    /\ pc = "idle"
    /\ st_error = {MsgDownload}
    /\ session_state.llm_response = "The answer."
    /\ Len(session_state.transcriptions) = 2
    /\ session_state.transcript_text = "SPEAKER_00: hi\nSPEAKER_01: hi"
====
